---- MODULE Spec2Model ----
(***************************************************************************)
(* LR(k) parser generator and driver of limecc (lrparser.py).              *)
(*                                                                         *)
(* A Parser is constructed from a grammar, a lookahead bound k and a       *)
(* matcher map (Parser.__init__), and then used to parse token sequences   *)
(* (Parser.parse).  Construction is one action; a parse is a process whose *)
(* steps are the iterations of the shift-reduce loop.                      *)
(*                                                                         *)
(* Symbols are strings.  A rule is [left, right]; a rule object is         *)
(* identified by its position in the augmented grammar (rule 0 is the      *)
(* synthetic rule '' -> root).  State identifiers are 0-based as in the    *)
(* code; the TLA+ sequence `states' holds state i at position i + 1.       *)
(*                                                                         *)
(* Input contract assumed of the grammars below: no user symbol is the     *)
(* reserved augmentation symbol '', and no non-terminal is a key of the    *)
(* matcher map (the map is a map from terminal symbols to predicates).     *)
(***************************************************************************)
EXTENDS Integers, Sequences, FiniteSets, TLC

VARIABLES
    grammar,          \* the user's grammar: a sequence of rules
    k,                \* the lookahead bound given to Parser.__init__
    matchers,         \* the matcher map given to Parser.__init__
    pstatus,          \* "new" | "built" | "failed"
    cerror,           \* the error Parser.__init__ raised (or NoError)
    states,           \* Parser.states
    accepting_state,  \* Parser.accepting_state (-1 is None)
    first,            \* the FIRST_k table built by First(aug_grammar, k)
    lang,             \* L(grammar) up to the length bound (reference only)
    runs,             \* the running calls of Parser.parse
    citems,           \* the items given to a call of _close_itemset
    closed,           \* the item sets _close_itemset returned, in order
    fcall             \* a call first(word): the word and the set returned

parserVars == <<grammar, k, matchers, pstatus, cerror, states, accepting_state, first, lang>>
closeVars == <<citems, closed, fcall>>
vars == <<grammar, k, matchers, pstatus, cerror, states, accepting_state, first, lang, runs,
          citems, closed, fcall>>

(***************************************************************************)
(* Bounds of the model.                                                    *)
(***************************************************************************)
MaxK == 2
MaxLen == 4
MaxLen2 == 2
MaxWord == 2

(***************************************************************************)
(* Sequence helpers.                                                       *)
(***************************************************************************)
Trunc(s, n) == IF Len(s) <= n THEN s ELSE SubSeq(s, 1, n)

Range(s) == { s[i] : i \in 1..Len(s) }

IsPrefix(p, s) == Len(p) <= Len(s) /\ SubSeq(s, 1, Len(p)) = p

RECURSIVE SetToSeq(_)
SetToSeq(S) ==
    IF S = {} THEN << >>
    ELSE LET x == CHOOSE y \in S : TRUE IN << x >> \o SetToSeq(S \ {x})

\* The elements of s in the order of their first occurrence.
Dedup(s) ==
    LET firsts == { i \in 1..Len(s) : \A j \in 1..(i - 1) : s[j] # s[i] }
    IN [n \in 1..Cardinality(firsts) |->
           s[CHOOSE i \in firsts : Cardinality({ j \in firsts : j < i }) = n - 1]]

RECURSIVE Flatten(_)
Flatten(ss) == IF ss = << >> THEN << >> ELSE Head(ss) \o Flatten(Tail(ss))

SeqsUpTo(S, n) == UNION { [1..m -> S] : m \in 0..n }

(***************************************************************************)
(* Grammar (grammar.py).                                                   *)
(***************************************************************************)
Rule(left, right) == [left |-> left, right |-> right]

\* Grammar.root(): the left side of the first rule, None for no rules.
None == "<None>"
Root(g) == IF Len(g) = 0 THEN None ELSE g[1].left

Nonterms(g) == { g[i].left : i \in 1..Len(g) }

SymbolSeq(g) == Dedup(Flatten([i \in 1..Len(g) |-> << g[i].left >> \o g[i].right]))

Symbols(g) == Range(SymbolSeq(g))

IsTerminal(g, token) == token \notin Nonterms(g)

Terminals(g) == Symbols(g) \ Nonterms(g)

\* Grammar.rules(left): the rules (here: their indices) with `left' on the left.
RulesOf(g, left) == { i \in 1..Len(g) : g[i].left = left }

\* The augmented grammar; rule 0 of the code is at position 1 here.
AugSymbol == ""
Augment(g) == << Rule(AugSymbol, << Root(g) >>) >> \o g

\* Rule object number r (0-based) of the augmented grammar.
RuleAt(aug, r) == aug[r + 1]

AugRulesOf(aug, left) == { i - 1 : i \in RulesOf(aug, left) }

(***************************************************************************)
(* FIRST_k (first.py): a table M from non-terminals to sets of terminal    *)
(* strings of length <= k, grown from empty sets to a fixed point; the     *)
(* FIRST_k of a word is the k-truncated concatenation of its symbols' sets.*)
(***************************************************************************)
Oplus(L, R, kk) == { Trunc(u \o v, kk) : u \in L, v \in R }

RECURSIVE FirstWord(_, _, _)
FirstWord(M, word, kk) ==
    IF word = << >> THEN { << >> }
    ELSE LET s == Head(word)
             sset == IF s \in DOMAIN M THEN M[s] ELSE { << s >> }
         IN Oplus(sset, FirstWord(M, Tail(word), kk), kk)

\* One pass over the rules, each updating M[left] with the current M.
RECURSIVE FirstPass(_, _, _, _)
FirstPass(M, aug, i, kk) ==
    IF i > Len(aug) THEN M
    ELSE LET A == aug[i].left
             M2 == [M EXCEPT ![A] = @ \cup FirstWord(M, aug[i].right, kk)]
         IN FirstPass(M2, aug, i + 1, kk)

RECURSIVE FirstFix(_, _, _)
FirstFix(M, aug, kk) ==
    LET M2 == FirstPass(M, aug, 1, kk)
    IN IF M2 = M THEN M ELSE FirstFix(M2, aug, kk)

First(aug, kk) == FirstFix([A \in Nonterms(aug) |-> {}], aug, kk)

(***************************************************************************)
(* _Item.                                                                  *)
(***************************************************************************)
Item(rule, index, lookahead) == [rule |-> rule, index |-> index, lookahead |-> lookahead]

Final(aug, item) == Len(RuleAt(aug, item.rule).right) <= item.index

NextToken(aug, item) ==
    IF Final(aug, item) THEN None ELSE RuleAt(aug, item.rule).right[item.index + 1]

\* A next_lookaheads that keeps one symbol more than k.
NextLookaheadsOneMore(aug, M, kk, item) ==
    LET right == RuleAt(aug, item.rule).right
        rule_suffix == SubSeq(right, item.index + 2, Len(right))
    IN FirstWord(M, rule_suffix \o item.lookahead, kk + 1)

NextLookaheads(aug, M, kk, item) ==
    LET right == RuleAt(aug, item.rule).right
        rule_suffix == SubSeq(right, item.index + 2, Len(right))
    IN FirstWord(M, rule_suffix \o item.lookahead, kk)

Lookaheads(aug, M, kk, item) ==
    LET right == RuleAt(aug, item.rule).right
        rule_suffix == SubSeq(right, item.index + 1, Len(right))
    IN FirstWord(M, rule_suffix \o item.lookahead, kk)

(***************************************************************************)
(* _close_itemset and _goto.  The code grows a list and wraps it in a      *)
(* _State, whose itemset is set(list); the set is computed here.           *)
(***************************************************************************)
NewItems(aug, M, kk, curitem) ==
    { Item(next_rule, 0, next_lookahead) :
        next_rule \in AugRulesOf(aug, NextToken(aug, curitem)),
        next_lookahead \in NextLookaheads(aug, M, kk, curitem) }

\* A closure that visits only the items it was given.
CloseItemsetOnePass(aug, M, kk, itemset) ==
    itemset \cup UNION { NewItems(aug, M, kk, it) : it \in itemset }

RECURSIVE CloseItemset(_, _, _, _)
CloseItemset(aug, M, kk, itemset) ==
    LET grown == itemset \cup UNION { NewItems(aug, M, kk, it) : it \in itemset }
    IN IF grown = itemset THEN itemset ELSE CloseItemset(aug, M, kk, grown)

Goto(aug, M, kk, itemset, symbol) ==
    CloseItemset(aug, M, kk,
        { Item(it.rule, it.index + 1, it.lookahead) :
            it \in { x \in itemset : NextToken(aug, x) = symbol } })

(***************************************************************************)
(* _State and the worklist expansion of Parser.__init__.                   *)
(***************************************************************************)
EmptyMap == [x \in {} |-> 0]

State(itemset) ==
    [ itemset |-> itemset, goto |-> EmptyMap, action |-> EmptyMap,
      action_match |-> << >>, goto_match |-> << >> ]

\* A search that takes item sets of equal size for equal.
FindStateBySize(sts, itemset) ==
    IF \E j \in 1..Len(sts) : Cardinality(sts[j].itemset) = Cardinality(itemset)
    THEN (CHOOSE j \in 1..Len(sts) :
              /\ Cardinality(sts[j].itemset) = Cardinality(itemset)
              /\ \A j2 \in 1..(j - 1) :
                    Cardinality(sts[j2].itemset) # Cardinality(itemset)) - 1
    ELSE -1

\* Index (0-based) of the first state with this item set, or -1.
FindState(sts, itemset) ==
    IF \E j \in 1..Len(sts) : sts[j].itemset = itemset
    THEN (CHOOSE j \in 1..Len(sts) :
              /\ sts[j].itemset = itemset
              /\ \A j2 \in 1..(j - 1) : sts[j2].itemset # itemset) - 1
    ELSE -1

\* The body of `for symbol in aug_grammar.symbols()` for state i, symbol j.
RECURSIVE ExpandSymbols(_, _, _, _, _, _)
ExpandSymbols(aug, M, kk, sts, i, j) ==
    LET syms == SymbolSeq(aug) IN
    IF j > Len(syms) THEN sts
    ELSE LET symbol == syms[j]
             newset == Goto(aug, M, kk, sts[i].itemset, symbol)
             old == FindState(sts, newset)
         IN IF newset = {} THEN ExpandSymbols(aug, M, kk, sts, i, j + 1)
            ELSE IF old >= 0
            THEN ExpandSymbols(aug, M, kk,
                     [sts EXCEPT ![i].goto = (symbol :> old) @@ @], i, j + 1)
            ELSE ExpandSymbols(aug, M, kk,
                     Append([sts EXCEPT ![i].goto = (symbol :> Len(sts)) @@ @],
                            State(newset)), i, j + 1)

RECURSIVE ExpandStates(_, _, _, _, _)
ExpandStates(aug, M, kk, sts, i) ==
    IF i > Len(sts) THEN sts
    ELSE ExpandStates(aug, M, kk, ExpandSymbols(aug, M, kk, sts, i, 1), i + 1)

StartState(aug, M, kk) == State(CloseItemset(aug, M, kk, { Item(0, 0, << >>) }))

BuildStates(aug, M, kk) == ExpandStates(aug, M, kk, << StartState(aug, M, kk) >>, 1)

(***************************************************************************)
(* Filling the action tables (Parser.__init__, add_action).  An action is  *)
(* 0 for None (shift, and accept) or r >= 1 for the rule object r.         *)
(***************************************************************************)
ShiftAction == 0

NoError == [type |-> "none", msg |-> "", k |-> -1, states |-> << >>]

EmptyGrammarError ==
    [type |-> "InvalidGrammarError",
     msg |-> "There must be at least one rule in the grammar.",
     k |-> -1, states |-> << >>]

ConflictError(kk, sts) ==
    [type |-> "InvalidGrammarError", msg |-> "LR(%d) table conflict", k |-> kk, states |-> sts]

AssertionError == [type |-> "AssertionError", msg |-> "", k |-> -1, states |-> << >>]

\* The add_action calls one item makes, in order: << lookahead, action >>.
ItemAssignments(aug, M, kk, item) ==
    LET nt == NextToken(aug, item) IN
    IF nt = None
    THEN IF RuleAt(aug, item.rule).left = AugSymbol
         THEN << << item.lookahead, ShiftAction >> >>
         ELSE << << item.lookahead, item.rule >> >>
    ELSE IF IsTerminal(aug, nt)
    THEN LET las == SetToSeq(Lookaheads(aug, M, kk, item))
         IN [n \in 1..Len(las) |-> << las[n], ShiftAction >>]
    ELSE << >>

\* An add_action that compares reduce actions only.
ConflictsReduceOnly(action, lookahead, act) ==
    /\ lookahead \in DOMAIN action
    /\ action[lookahead] # ShiftAction /\ act # ShiftAction
    /\ action[lookahead] # act

\* add_action: TRUE when the assignment raises the table conflict.
Conflicts(action, lookahead, act) ==
    lookahead \in DOMAIN action /\ action[lookahead] # act

AddAction(action, lookahead, act) == (lookahead :> act) @@ action

\* The add_action calls of one state, applied in order until one raises.
RECURSIVE ApplyAssignments(_, _, _)
ApplyAssignments(action, assigns, n) ==
    IF n > Len(assigns) THEN [conflict |-> FALSE, action |-> action]
    ELSE IF Conflicts(action, assigns[n][1], assigns[n][2])
    THEN [conflict |-> TRUE, action |-> action]
    ELSE ApplyAssignments(AddAction(action, assigns[n][1], assigns[n][2]), assigns, n + 1)

StateAssignments(aug, M, kk, st) ==
    LET items == SetToSeq(st.itemset)
    IN Flatten([n \in 1..Len(items) |-> ItemAssignments(aug, M, kk, items[n])])

HasAcceptItem(aug, st) ==
    \E item \in st.itemset :
        NextToken(aug, item) = None /\ RuleAt(aug, item.rule).left = AugSymbol

\* for state_id, state in enumerate(states): ...  (i is state_id + 1)
RECURSIVE FillActions(_, _, _, _, _, _)
FillActions(aug, M, kk, sts, i, acc) ==
    IF i > Len(sts) THEN [conflict |-> FALSE, states |-> sts, accepting_state |-> acc]
    ELSE LET r == ApplyAssignments(sts[i].action, StateAssignments(aug, M, kk, sts[i]), 1)
             sts2 == [sts EXCEPT ![i].action = r.action]
             acc2 == IF HasAcceptItem(aug, sts[i]) THEN i - 1 ELSE acc
         IN IF r.conflict
            THEN [conflict |-> TRUE, states |-> sts2, accepting_state |-> acc2]
            ELSE FillActions(aug, M, kk, sts2, i + 1, acc2)

(***************************************************************************)
(* Matchers.  A predicate is [kind, symbol]: kind "eq" is _SymbolMatcher,  *)
(* the other kinds are the entries of default_matchers.  Match tabulates   *)
(* the Python predicates on the strings that occur in the model.           *)
(***************************************************************************)
SymbolMatcher(symbol) == [kind |-> "eq", symbol |-> symbol]

any_matcher == [kind |-> "any", symbol |-> ""]

default_matchers ==
    ("any" :> any_matcher) @@ ("space" :> [kind |-> "space", symbol |-> ""])
    @@ ("digit" :> [kind |-> "digit", symbol |-> ""])
    @@ ("alnum" :> [kind |-> "alnum", symbol |-> ""])

NoMatchers == EmptyMap

Match(pred, value) ==
    CASE pred.kind = "eq" -> pred.symbol = value
      [] pred.kind = "any" -> TRUE
      [] pred.kind = "space" -> value \in {" "}
      [] pred.kind = "digit" -> value \in {"1"}
      [] pred.kind = "alnum" -> value \notin {"", " ", "+"}

\* "fixup matches" for one state.
FixupState(m, st) ==
    LET las == SetToSeq(DOMAIN st.action)
        action_match ==
            [n \in 1..Len(las) |->
                << [j \in 1..Len(las[n]) |->
                        IF las[n][j] \in DOMAIN m THEN m[las[n][j]]
                        ELSE SymbolMatcher(las[n][j])],
                   st.action[las[n]] >>]
        moved == SetToSeq(DOMAIN st.goto \cap DOMAIN m)
        goto_match == [n \in 1..Len(moved) |-> << m[moved[n]], st.goto[moved[n]] >>]
        new_goto == [symbol \in DOMAIN st.goto \ DOMAIN m |-> st.goto[symbol]]
    IN [ itemset |-> st.itemset, goto |-> new_goto, action |-> EmptyMap,
         action_match |-> action_match, goto_match |-> goto_match ]

(***************************************************************************)
(* Parser.__init__ as a whole (keep_states = True: item sets are kept).    *)
(***************************************************************************)
\* Everything after the test of grammar.root().
BuildTables(g, kk, m) ==
    LET aug == Augment(g)
        M == First(aug, kk)
        filled == FillActions(aug, M, kk, BuildStates(aug, M, kk), 1, -1)
    IN IF filled.conflict
       THEN [status |-> "failed", error |-> ConflictError(kk, filled.states),
             states |-> << >>, accepting_state |-> -1, first |-> M]
       ELSE IF filled.accepting_state = -1
       THEN [status |-> "failed", error |-> AssertionError, states |-> << >>,
             accepting_state |-> -1, first |-> M]
       ELSE [status |-> "built", error |-> NoError,
             states |-> [i \in 1..Len(filled.states) |-> FixupState(m, filled.states[i])],
             accepting_state |-> filled.accepting_state, first |-> M]

\* A constructor that returns an empty parser for a grammar with no rules.
BuildSilentOnEmpty(g, kk, m) ==
    IF Root(g) = None
    THEN [status |-> "built", error |-> NoError, states |-> << >>,
          accepting_state |-> -1, first |-> EmptyMap]
    ELSE BuildTables(g, kk, m)

Build(g, kk, m) ==
    IF Root(g) = None
    THEN [status |-> "failed", error |-> EmptyGrammarError, states |-> << >>,
          accepting_state |-> -1, first |-> EmptyMap]
    ELSE BuildTables(g, kk, m)

(***************************************************************************)
(* The grammars the model is run on.                                       *)
(***************************************************************************)
GList == << Rule("list", << >>), Rule("list", << "list", "item" >>) >>
GRList == << Rule("list", << >>), Rule("list", << "item", "list" >>) >>
GAB == << Rule("S", << "a", "B" >>), Rule("B", << "b" >>) >>
GExpr == << Rule("E", << "E", "+", "T" >>), Rule("E", << "T" >>), Rule("T", << "id" >>) >>
GUnprod == << Rule("S", << "a" >>), Rule("S", << "a", "b", "U" >>), Rule("U", << "c", "U" >>) >>
GAny == << Rule("S", << "any" >>), Rule("S", << "x", "y" >>) >>
GDigit == << Rule("S", << "digit" >>) >>
GLR2 == << Rule("S", << "A", "a", "a" >>), Rule("S", << "B", "a", "b" >>),
           Rule("A", << "b" >>), Rule("B", << "b" >>) >>
GEmpty == << >>

Grammars == { GList, GRList, GAB, GExpr, GUnprod, GAny, GDigit, GLR2, GEmpty }

\* Grammars that use the string '' of the augmentation as a symbol of their own.
GAugTail == << Rule("S", << "a", AugSymbol >>), Rule(AugSymbol, << "b" >>) >>
GAugRoot == << Rule(AugSymbol, << "a" >>) >>
GAugList == << Rule("list", << >>), Rule("list", << "list", AugSymbol >>) >>

AugGrammars == { GAugTail, GAugRoot, GAugList }

(***************************************************************************)
(* Tokens and semantic values.  A token is a plain object (obj) or a tuple *)
(* whose members are obj followed by rest.  A semantic value is a raw      *)
(* token (pushed by a shift) or the tree node built by a rule's action.    *)
(***************************************************************************)
PlainToken(s) == [tuple |-> FALSE, obj |-> s, rest |-> << >>]
TupleToken(s) == [tuple |-> TRUE, obj |-> s, rest |-> << "42" >>]

Members(token) == << token.obj >> \o token.rest

extract_first(token) == IF token.tuple THEN Members(token)[1] ELSE token.obj

ExtractAll(tokens) == [i \in 1..Len(tokens) |-> extract_first(tokens[i])]

Foreign == "1"

\* The tokens a sentence is drawn from: every symbol of the grammar (terminal
\* or not) and a foreign value as plain tokens, and one tuple token.
Tokens(g) ==
    { PlainToken(s) : s \in Symbols(g) \cup {Foreign} }
    \cup { TupleToken(s) : s \in { t \in Terminals(g) : t = SymbolSeq(g)[Len(SymbolSeq(g))] } }

NoToken == PlainToken(None)

Leaf(token) == [node |-> FALSE, tok |-> token, rule |-> -1, ctx |-> None, kids |-> << >>]

\* rule.action(context, *args) for the tree-building actions.
RuleAction(rule, context, args) ==
    [node |-> TRUE, tok |-> NoToken, rule |-> rule, ctx |-> context, kids |-> args]

RECURSIVE Frontier(_)
Frontier(v) ==
    IF ~v.node THEN << v.tok >>
    ELSE Flatten([i \in 1..Len(v.kids) |-> Frontier(v.kids[i])])

(***************************************************************************)
(* _State.get_action and _State.get_next_state; -1 is ParsingError.        *)
(***************************************************************************)
Raise == -1

EntryAccepts(entry, lookahead) ==
    /\ Len(entry[1]) = Len(lookahead)
    /\ \A j \in 1..Len(lookahead) : Match(entry[1][j], lookahead[j])

\* A get_action that never matches the empty lookahead.
GetActionNonEmpty(st, lookahead) ==
    LET hits == { n \in 1..Len(st.action_match) :
                    lookahead # << >> /\ EntryAccepts(st.action_match[n], lookahead) }
    IN IF hits = {} THEN Raise
       ELSE st.action_match[CHOOSE n \in hits : \A n2 \in hits : n <= n2][2]

GetAction(st, lookahead) ==
    LET hits == { n \in 1..Len(st.action_match) : EntryAccepts(st.action_match[n], lookahead) }
    IN IF hits = {} THEN Raise
       ELSE st.action_match[CHOOSE n \in hits : \A n2 \in hits : n <= n2][2]

GetNextState(st, symbol) ==
    IF symbol \in DOMAIN st.goto THEN st.goto[symbol]
    ELSE LET hits == { n \in 1..Len(st.goto_match) : Match(st.goto_match[n][1], symbol) }
         IN IF hits = {} THEN Raise
            ELSE st.goto_match[CHOOSE n \in hits : \A n2 \in hits : n <= n2][2]

(***************************************************************************)
(* Parser.parse.  A call is a record: its position (pc), the iterator      *)
(* (`read' are the tokens pulled so far, hasNext whether it.next() would   *)
(* give another), and the locals buf, stack, asts.  shifted, reds and the  *)
(* seen* flags are history of the call; pre and post tell which hooks the  *)
(* call was given, and calls is the log of the calls it made to the hooks  *)
(* and to the rules' actions.                                              *)
(***************************************************************************)
IdleRun(limit) ==
    [ pc |-> "idle", limit |-> limit, hasNext |-> FALSE, read |-> << >>,
      buf |-> << >>, stack |-> << >>, asts |-> << >>,
      result |-> Leaf(NoToken), error |-> "",
      pre |-> FALSE, post |-> FALSE, calls |-> << >>,
      shifted |-> << >>, reds |-> << >>, seenAccept |-> FALSE, seenAcceptAtEnd |-> FALSE ]

\* p.parse(..., prereduce_visitor=..., postreduce_visitor=...): a call that is
\* given the hooks (pre, post).
IdleRunWith(limit, pre, post) == [IdleRun(limit) EXCEPT !.pre = pre, !.post = post]

Context == None

ParserOf(sts, acc, kk, g) == [states |-> sts, accepting_state |-> acc, k |-> kk, aug |-> Augment(g)]

StateAt(P, state_id) == P.states[state_id + 1]

Top(r) == r.stack[Len(r.stack)]

LastN(s, n) == SubSeq(s, IF n >= Len(s) THEN 1 ELSE Len(s) - n + 1, Len(s))

DropLastN(s, n) == SubSeq(s, 1, IF n >= Len(s) THEN 0 ELSE Len(s) - n)

\* del stack[-len(action.right):]
PopStack(stack, n) == DropLastN(stack, n)

\* A reduce that leaves the reduced values on asts.
PopAstsForgotten(asts, n) == asts

\* del asts[-len(action.right):]
PopAsts(asts, n) == DropLastN(asts, n)

\* it.next(): nx is what the iterator holds next, [some, tok].
NoNext == [some |-> FALSE, tok |-> NoToken]
SomeNext(tok) == [some |-> TRUE, tok |-> tok]

\* The priming loop and the initialisation of the locals.
Prime(r, kk, toks, more) ==
    [r EXCEPT !.pc = "run", !.read = toks, !.buf = toks, !.hasNext = more,
              !.stack = << 0 >>, !.asts = << >>]

\* key and action at the top of a loop iteration.
KeyOf(r) == ExtractAll(r.buf)

ActionOf(P, r) == GetAction(StateAt(P, Top(r)), KeyOf(r))

\* History: the configuration at the top of this iteration.
AcceptConfig(P, r) ==
    r.buf = << >> /\ Top(r) = P.accepting_state /\ Len(r.asts) = 1

Observe(P, r) ==
    [r EXCEPT !.seenAccept = @ \/ AcceptConfig(P, r),
              !.seenAcceptAtEnd = @ \/ (AcceptConfig(P, r) /\ ~r.hasNext)]

\* A loop that goes on to its next iteration when get_action raised.
UnexpectedStepIgnored(P, r) == Observe(P, r)

\* get_action raised.
UnexpectedStep(P, r) ==
    [Observe(P, r) EXCEPT !.pc = "error", !.error = "Unexpected input token"]

\* A reduce that looks the goto up in the state at the bottom of the stack.
UncoveredBottom(stack) == stack[1]

\* stack[-1] after the del: the state the pop uncovers.
Uncovered(stack) == stack[Len(stack)]

\* One entry of the log of calls: fn(rule, ctx, *args) or fn(rule, value).
Call(fn, rule, ctx, args, value) ==
    [fn |-> fn, rule |-> rule, ctx |-> ctx, args |-> args, value |-> value]

NoValue == Leaf(NoToken)

\* A reduction that calls the post-reduce hook before the rule's action.
HookCallsPostFirst(r, action, args, new_ast) ==
    (IF r.pre THEN << Call("prereduce_visitor", -1, None, args, NoValue) >> ELSE << >>)
    \o (IF r.post THEN << Call("postreduce_visitor", action, None, << >>, new_ast) >> ELSE << >>)
    \o << Call("action", action, Context, args, NoValue) >>

\* The calls one reduction makes, in order.
HookCalls(r, action, args, new_ast) ==
    (IF r.pre THEN << Call("prereduce_visitor", -1, None, args, NoValue) >> ELSE << >>)
    \o << Call("action", action, Context, args, NoValue) >>
    \o (IF r.post THEN << Call("postreduce_visitor", action, None, << >>, new_ast) >> ELSE << >>)

\* The reduce branch.
ReduceStep(P, r) ==
    LET action == ActionOf(P, r)
        n == Len(RuleAt(P.aug, action).right)
        args == IF n > 0 THEN LastN(r.asts, n) ELSE << >>
        new_ast == RuleAction(action, Context, args)
        stack1 == IF n > 0 THEN PopStack(r.stack, n) ELSE r.stack
        asts1 == IF n > 0 THEN PopAsts(r.asts, n) ELSE r.asts
        o == [Observe(P, r) EXCEPT !.reds = Append(@, action),
                                   !.calls = @ \o HookCalls(r, action, args, new_ast)]
    IN IF stack1 = << >>
       THEN [o EXCEPT !.pc = "crash", !.error = "IndexError", !.stack = stack1, !.asts = asts1]
       ELSE LET next == GetNextState(StateAt(P, Uncovered(stack1)), RuleAt(P.aug, action).left)
            IN IF next = Raise
               THEN [o EXCEPT !.pc = "error", !.error = "Unexpected input token",
                              !.stack = stack1, !.asts = asts1]
               ELSE [o EXCEPT !.stack = Append(stack1, next), !.asts = Append(asts1, new_ast)]

\* A get_shift_token that takes the newest token of the buffer (buf.pop()).
GetShiftTokenLast(r, nx) ==
    IF Len(r.buf) = 0
    THEN IF nx.some
         THEN [tok |-> nx.tok, buf |-> r.buf, read |-> Append(r.read, nx.tok)]
         ELSE [tok |-> NoToken, buf |-> r.buf, read |-> r.read]
    ELSE LET last == r.buf[Len(r.buf)]
             front == SubSeq(r.buf, 1, Len(r.buf) - 1)
         IN IF nx.some
            THEN [tok |-> last, buf |-> Append(front, nx.tok), read |-> Append(r.read, nx.tok)]
            ELSE [tok |-> last, buf |-> front, read |-> r.read]

\* A get_shift_token that does not refill the buffer after buf.pop(0).
GetShiftTokenNoRefill(r, nx) ==
    IF Len(r.buf) = 0
    THEN IF nx.some
         THEN [tok |-> nx.tok, buf |-> r.buf, read |-> Append(r.read, nx.tok)]
         ELSE [tok |-> NoToken, buf |-> r.buf, read |-> r.read]
    ELSE [tok |-> Head(r.buf), buf |-> Tail(r.buf), read |-> r.read]

\* get_shift_token: [tok (NoToken is None), buf, read].
GetShiftToken(r, nx) ==
    IF Len(r.buf) = 0
    THEN IF nx.some
         THEN [tok |-> nx.tok, buf |-> r.buf, read |-> Append(r.read, nx.tok)]
         ELSE [tok |-> NoToken, buf |-> r.buf, read |-> r.read]
    ELSE IF nx.some
         THEN [tok |-> Head(r.buf), buf |-> Append(Tail(r.buf), nx.tok),
               read |-> Append(r.read, nx.tok)]
         ELSE [tok |-> Head(r.buf), buf |-> Tail(r.buf), read |-> r.read]

\* A test that takes every state for the accepting state.
IsAcceptingAlways(P, state_id) == TRUE

\* A test that takes the states other than the accepting state for it.
IsAcceptingInverted(P, state_id) == state_id # P.accepting_state

\* state_id == self.accepting_state
IsAccepting(P, state_id) == state_id = P.accepting_state

\* The shift branch (action None).
ShiftStep(P, r, nx) ==
    LET g == GetShiftToken(r, nx)
        state_id == Top(r)
        o == [Observe(P, r) EXCEPT !.buf = g.buf, !.read = g.read]
    IN IF g.tok = NoToken
       THEN IF IsAccepting(P, state_id)
            THEN IF Len(r.asts) = 1
                 THEN [o EXCEPT !.pc = "returned", !.result = r.asts[1]]
                 ELSE [o EXCEPT !.pc = "crash", !.error = "AssertionError"]
            ELSE [o EXCEPT !.pc = "error", !.error = "Reached the end of file prematurely."]
       ELSE LET next == GetNextState(StateAt(P, state_id), extract_first(g.tok))
            IN IF next = Raise
               THEN [o EXCEPT !.pc = "error", !.error = "Unexpected input token"]
               ELSE [o EXCEPT !.stack = Append(@, next), !.asts = Append(@, Leaf(g.tok)),
                              !.shifted = Append(@, g.tok)]

\* One iteration of `while True'.
LoopStep(P, r, nx) ==
    LET action == ActionOf(P, r)
    IN IF action = Raise THEN UnexpectedStep(P, r)
       ELSE IF action # ShiftAction THEN ReduceStep(P, r)
       ELSE ShiftStep(P, r, nx)

(***************************************************************************)
(* Reference: the sentences of L(g) of length <= n, by derivation.         *)
(***************************************************************************)
RECURSIVE WordLang(_, _, _)
WordLang(L, word, n) ==
    IF word = << >> THEN { << >> }
    ELSE LET s == Head(word)
             sset == IF s \in DOMAIN L THEN L[s] ELSE { << s >> }
             tl == WordLang(L, Tail(word), n)
         IN { w \in { u \o v : u \in sset, v \in tl } : Len(w) <= n }

RECURSIVE LangFix(_, _, _)
LangFix(L, g, n) ==
    LET L2 == [A \in DOMAIN L |-> L[A] \cup UNION { WordLang(L, g[i].right, n) : i \in RulesOf(g, A) }]
    IN IF L2 = L THEN L ELSE LangFix(L2, g, n)

Language(g, n) ==
    IF Len(g) = 0 THEN {} ELSE LangFix([A \in Nonterms(g) |-> {}], g, n)[Root(g)]

(***************************************************************************)
(* Actions.                                                                *)
(***************************************************************************)
\* Parser(grammar, k, matchers=matchers)
Construct ==
    /\ pstatus = "new"
    /\ LET b == Build(grammar, k, matchers)
       IN /\ pstatus' = b.status
          /\ cerror' = b.error
          /\ states' = b.states
          /\ accepting_state' = b.accepting_state
          /\ first' = b.first
    /\ lang' = Language(grammar, MaxLen)
    /\ UNCHANGED << grammar, k, matchers, runs, closeVars >>

P == ParserOf(states, accepting_state, k, grammar)

Min(a, b) == IF a <= b THEN a ELSE b

\* p.parse(sentence) up to the first test of `while True'.
StartParse(p) ==
    /\ pstatus = "built"
    /\ runs[p].pc = "idle"
    /\ \E n \in 0..Min(k, runs[p].limit) :
         \E toks \in [1..n -> Tokens(grammar)] :
           \E more \in BOOLEAN :
             /\ n < k => ~more
             /\ more => n < runs[p].limit
             /\ runs' = [runs EXCEPT ![p] = Prime(@, k, toks, more)]
    /\ UNCHANGED << parserVars, closeVars >>

Running(p) == pstatus = "built" /\ runs[p].pc = "run"

\* What the shift branch can do, by what the iterator gives.
ShiftOutcomes(p) ==
    LET r == runs[p] IN
    IF r.hasNext
    THEN { [ShiftStep(P, r, SomeNext(tok)) EXCEPT !.hasNext = more] :
             tok \in Tokens(grammar),
             more \in { b \in BOOLEAN : b => Len(r.read) + 1 < r.limit } }
    ELSE { ShiftStep(P, r, NoNext) }

Unexpected(p) ==
    /\ Running(p)
    /\ ActionOf(P, runs[p]) = Raise
    /\ runs' = [runs EXCEPT ![p] = UnexpectedStep(P, @)]
    /\ UNCHANGED << parserVars, closeVars >>

Reduce(p) ==
    /\ Running(p)
    /\ ActionOf(P, runs[p]) \notin { Raise, ShiftAction }
    /\ runs' = [runs EXCEPT ![p] = ReduceStep(P, @)]
    /\ UNCHANGED << parserVars, closeVars >>

\* A shift whose get_action removes the entry it scanned first.
ShiftConsumingEntry(p) ==
    /\ Running(p)
    /\ ActionOf(P, runs[p]) = ShiftAction
    /\ \E new \in ShiftOutcomes(p) :
         /\ new.pc = "run"
         /\ runs' = [runs EXCEPT ![p] = new]
    /\ states' = [states EXCEPT ![Top(runs[p]) + 1].action_match = Tail(@)]
    /\ UNCHANGED << grammar, k, matchers, pstatus, cerror, accepting_state, first, lang,
                    closeVars >>

Shift(p) ==
    /\ Running(p)
    /\ ActionOf(P, runs[p]) = ShiftAction
    /\ \E new \in ShiftOutcomes(p) :
         /\ new.pc = "run"
         /\ runs' = [runs EXCEPT ![p] = new]
    /\ UNCHANGED << parserVars, closeVars >>

ShiftUnexpected(p) ==
    /\ Running(p)
    /\ ActionOf(P, runs[p]) = ShiftAction
    /\ runs[p].buf # << >> \/ runs[p].hasNext
    /\ \E new \in ShiftOutcomes(p) :
         /\ new.pc = "error"
         /\ runs' = [runs EXCEPT ![p] = new]
    /\ UNCHANGED << parserVars, closeVars >>

Accept(p) ==
    /\ Running(p)
    /\ ActionOf(P, runs[p]) = ShiftAction
    /\ runs[p].buf = << >> /\ ~runs[p].hasNext
    /\ Top(runs[p]) = accepting_state
    /\ runs' = [runs EXCEPT ![p] = ShiftStep(P, @, NoNext)]
    /\ UNCHANGED << parserVars, closeVars >>

PrematureEnd(p) ==
    /\ Running(p)
    /\ ActionOf(P, runs[p]) = ShiftAction
    /\ runs[p].buf = << >> /\ ~runs[p].hasNext
    /\ Top(runs[p]) # accepting_state
    /\ runs' = [runs EXCEPT ![p] = ShiftStep(P, @, NoNext)]
    /\ UNCHANGED << parserVars, closeVars >>

\* No call of first(word) made yet.
NoCall == [done |-> FALSE, word |-> << >>, result |-> {}]

InitParser ==
    /\ k \in 0..MaxK
    /\ matchers \in { NoMatchers, default_matchers }
    /\ pstatus = "new"
    /\ cerror = NoError
    /\ states = << >>
    /\ accepting_state = -1
    /\ first = EmptyMap
    /\ lang = {}
    /\ citems = {}
    /\ closed = << >>
    /\ fcall = NoCall

Init ==
    /\ grammar \in Grammars
    /\ InitParser
    /\ runs \in { [p \in {1} |-> IdleRunWith(MaxLen, pre, post)] : pre \in BOOLEAN, post \in BOOLEAN }

Next ==
    \/ Construct
    \/ \E p \in DOMAIN runs : StartParse(p)
    \/ \E p \in DOMAIN runs : Unexpected(p)
    \/ \E p \in DOMAIN runs : Reduce(p)
    \/ \E p \in DOMAIN runs : Shift(p)
    \/ \E p \in DOMAIN runs : ShiftUnexpected(p)
    \/ \E p \in DOMAIN runs : Accept(p)
    \/ \E p \in DOMAIN runs : PrematureEnd(p)

Spec == Init /\ [][Next]_vars

\* The parse loop runs on: an iteration that can be taken is taken.
Iterate ==
    \E p \in DOMAIN runs :
        Unexpected(p) \/ Reduce(p) \/ Shift(p) \/ ShiftUnexpected(p) \/ Accept(p) \/ PrematureEnd(p)

\* One parse() call with both hooks, on inputs one token shorter than in Init.
InitLive ==
    /\ grammar \in Grammars
    /\ InitParser
    /\ runs = [p \in {1} |-> IdleRunWith(MaxLen - 1, TRUE, TRUE)]

SpecLive == InitLive /\ [][Next]_vars /\ WF_vars(Iterate)

\* Two calls of parse on one parser, their steps interleaved.
InitTwo ==
    /\ grammar \in { GList, GDigit }
    /\ InitParser
    /\ runs = [p \in {1, 2} |-> IF p = 1 THEN IdleRunWith(MaxLen2, TRUE, TRUE)
                                      ELSE IdleRunWith(MaxLen2 - 1, FALSE, TRUE)]

SpecTwo == InitTwo /\ [][Next]_vars

\* _close_itemset applied to items of the augmented grammar, and to its own
\* result.  An item has a rule, a position in it, and a lookahead of at most
\* k terminals.
ItemsOf(aug, kk) ==
    UNION { { Item(rule, index, la) :
                index \in 0..Len(RuleAt(aug, rule).right),
                la \in SeqsUpTo(Terminals(aug), kk) } :
            rule \in 0..(Len(aug) - 1) }

\* The list _goto makes of an item set for a symbol.
Kernel(aug, itemset, symbol) ==
    { Item(it.rule, it.index + 1, it.lookahead) :
        it \in { x \in itemset : NextToken(aug, x) = symbol } }

\* The lists given to _close_itemset: one item, or what _goto makes of the
\* closure of one item.
ItemLists(aug, M, kk) ==
    { {it} : it \in ItemsOf(aug, kk) }
    \cup { Kernel(aug, CloseItemset(aug, M, kk, {it}), symbol) :
              it \in ItemsOf(aug, kk), symbol \in Symbols(aug) }

CloseItems ==
    /\ pstatus # "new" /\ grammar # << >>
    /\ closed = << >> /\ ~fcall.done
    /\ \E I \in ItemLists(Augment(grammar), first, k) :
         /\ citems' = I
         /\ closed' = << CloseItemset(Augment(grammar), first, k, I) >>
    /\ UNCHANGED << parserVars, runs, fcall >>

CloseAgain ==
    /\ Len(closed) = 1
    /\ closed' = Append(closed, CloseItemset(Augment(grammar), first, k, closed[1]))
    /\ UNCHANGED << parserVars, runs, citems, fcall >>

\* first(word) for a word over the symbols of the augmented grammar.
FirstCall ==
    /\ pstatus # "new" /\ grammar # << >>
    /\ ~fcall.done /\ closed = << >>
    /\ \E word \in SeqsUpTo(Symbols(Augment(grammar)), MaxWord) :
         fcall' = [done |-> TRUE, word |-> word, result |-> FirstWord(first, word, k)]
    /\ UNCHANGED << parserVars, runs, citems, closed >>

InitClose ==
    /\ grammar \in Grammars
    /\ InitParser
    /\ matchers = NoMatchers
    /\ runs = [p \in {1} |-> IdleRun(MaxLen)]

NextClose ==
    \/ Construct
    \/ CloseItems
    \/ CloseAgain
    \/ FirstCall

SpecClose == InitClose /\ [][NextClose]_vars

\* One call of parse on a parser for a grammar that uses '' itself.
InitAug ==
    /\ grammar \in AugGrammars
    /\ InitParser
    /\ runs \in { [p \in {1} |-> IdleRunWith(MaxLen, pre, post)] : pre \in BOOLEAN, post \in BOOLEAN }

SpecAug == InitAug /\ [][Next]_vars

(***************************************************************************)
(* Properties.                                                             *)
(***************************************************************************)
Ended(r) == r.pc \in { "returned", "error", "crash" }

\* Every terminal is matched with the equality operator.
EqualityMatching == Symbols(grammar) \cap DOMAIN matchers = {}

\* s may be the whole sentence given to the call r.
Consistent(r, s) ==
    /\ IsPrefix(ExtractAll(r.read), s)
    /\ r.hasNext => Len(s) > Len(r.read)
    /\ ~r.hasNext => Len(s) = Len(r.read)
    /\ Len(s) <= r.limit

Aug == Augment(grammar)

\* C1 (as claimed): with equality matching, a call whose sentence is not in
\* L(G) ends in ParsingError and never returns a value.
C1_Rejection ==
    \A p \in DOMAIN runs :
        (EqualityMatching /\ Ended(runs[p]) /\ ~(\E s \in lang : Consistent(runs[p], s)))
            => runs[p].pc = "error"

\* C2 (as claimed): for every built parser and every sentence s of L(G), the
\* call returns, has shifted exactly the tokens of s in order, and the
\* frontier of the returned tree is s.
C2_RoundTripAnyMatchers ==
    \A p \in DOMAIN runs :
        (Ended(runs[p]) /\ (\E s \in lang : Consistent(runs[p], s)))
            => /\ runs[p].pc = "returned"
               /\ runs[p].shifted = runs[p].read
               /\ Frontier(runs[p].result) = runs[p].read

\* C2 (amended): the same, for parsers in which no symbol of the grammar is a
\* key of the matcher map.
C2_RoundTrip ==
    \A p \in DOMAIN runs :
        (EqualityMatching /\ Ended(runs[p]) /\ (\E s \in lang : Consistent(runs[p], s)))
            => /\ runs[p].pc = "returned"
               /\ runs[p].shifted = runs[p].read
               /\ Frontier(runs[p].result) = runs[p].read

C2_Witness ==
    \E p \in DOMAIN runs :
        /\ EqualityMatching /\ k = 2
        /\ runs[p].pc = "returned"
        /\ Len(runs[p].read) = 3
        /\ Len(runs[p].reds) >= 2

\* The states construction built: the parser's, or those the error carries.
BuiltStates == IF pstatus = "built" THEN states ELSE cerror.states

NoCallYet == \A p \in DOMAIN runs : runs[p].pc = "idle"

\* The (lookahead, action) pairs an item assigns.
ItemActs(item) == Range(ItemAssignments(Aug, first, k, item))

\* Two items of st assign to one lookahead a reduce by a user rule and a shift
\* (or accept), or reduces by two different rules.
ConflictPair(st) ==
    \E i1 \in st.itemset, i2 \in st.itemset :
      \E a1 \in ItemActs(i1), a2 \in ItemActs(i2) :
        /\ a1[1] = a2[1]
        /\ \/ a1[2] >= 1 /\ a2[2] = ShiftAction
           \/ a1[2] >= 1 /\ a2[2] >= 1 /\ a1[2] # a2[2]

RaisedConflict ==
    /\ pstatus = "failed"
    /\ cerror.type = "InvalidGrammarError"
    /\ cerror.msg = "LR(%d) table conflict"
    /\ cerror.k = k

\* Every (state, lookahead) holds exactly one action.
OneActionEach(st) ==
    LET acts == UNION { ItemActs(item) : item \in st.itemset }
        las == { a[1] : a \in acts }
    IN /\ Len(st.action_match) = Cardinality(las)
       /\ \A a \in acts :
            Cardinality({ n \in 1..Len(st.action_match) :
                /\ st.action_match[n][2] = a[2]
                /\ st.action_match[n][1] =
                     [j \in 1..Len(a[1]) |->
                        IF a[1][j] \in DOMAIN matchers THEN matchers[a[1][j]]
                        ELSE SymbolMatcher(a[1][j])] }) = 1

ConflictIffPair ==
    /\ RaisedConflict <=> \E n \in 1..Len(BuiltStates) : ConflictPair(BuiltStates[n])
    /\ ~RaisedConflict =>
          /\ pstatus = "built"
          /\ \A n \in 1..Len(states) : OneActionEach(states[n])

FinalUserItem(item) ==
    NextToken(Aug, item) = None /\ RuleAt(Aug, item.rule).left # AugSymbol

TerminalAfterDot(item) ==
    NextToken(Aug, item) # None /\ IsTerminal(Aug, NextToken(Aug, item))

Values == { extract_first(t) : t \in Tokens(grammar) }

\* C4 (as claimed): in a built parser, for every state and every key of
\* extracted values of length <= k, at most one action_match entry accepts
\* the key, whatever the matcher map.
C4_StateDeterminism ==
    (pstatus = "built" /\ NoCallYet) =>
        \A n \in 1..Len(states) :
          \A key \in SeqsUpTo(Values, k) :
            Cardinality({ e \in 1..Len(states[n].action_match) :
                            EntryAccepts(states[n].action_match[e], key) }) <= 1

\* C5 (as claimed): a call returns iff at the top of some iteration the buffer
\* was empty, the top state the accepting state and asts held one value; it
\* returns that value.
C5_AcceptIffEmptyBuffer ==
    \A p \in DOMAIN runs :
        Ended(runs[p]) =>
            /\ runs[p].pc = "returned" <=> runs[p].seenAccept
            /\ runs[p].pc = "returned" =>
                  Len(runs[p].asts) = 1 /\ runs[p].result = runs[p].asts[1]

\* C5 (amended): ... the buffer was empty, no input token was left, the top
\* state the accepting state and asts held one value.
C5_AcceptIffInputExhausted ==
    \A p \in DOMAIN runs :
        Ended(runs[p]) =>
            /\ runs[p].pc = "returned" <=> runs[p].seenAcceptAtEnd
            /\ runs[p].pc = "returned" =>
                  Len(runs[p].asts) = 1 /\ runs[p].result = runs[p].asts[1]

C5_Witness ==
    \E p \in DOMAIN runs :
        /\ k = 0 /\ runs[p].pc = "returned"
        /\ runs[p].seenAcceptAtEnd /\ Len(runs[p].shifted) >= 2

\* C6 (as claimed): a returned value is the result of the action of the last
\* reduction, which was by a rule of the root; never a raw token.
C6_ReturnsTopReduction ==
    \A p \in DOMAIN runs :
        runs[p].pc = "returned" =>
            /\ runs[p].result.node
            /\ runs[p].reds # << >>
            /\ runs[p].result.rule = runs[p].reds[Len(runs[p].reds)]
            /\ RuleAt(Aug, runs[p].result.rule).left = Root(grammar)

NullableRoot == \E i \in 1..Len(grammar) : grammar[i].left = Root(grammar) /\ grammar[i].right = << >>

EpsilonRule == CHOOSE i \in 1..Len(grammar) : grammar[i].left = Root(grammar) /\ grammar[i].right = << >>

\* C7: a call on the empty sequence, the root having an epsilon rule, reduces
\* by that rule with the context and no values, reaches the accepting state
\* and returns the action's value; it raises nothing.
C7_NullableRootEmptyInput ==
    \A p \in DOMAIN runs :
        LET r == runs[p] IN
        (pstatus = "built" /\ NullableRoot /\ r.pc # "idle" /\ r.read = << >> /\ ~r.hasNext) =>
            \/ /\ r.pc = "run" /\ r.reds = << >> /\ r.stack = << 0 >>
               /\ ActionOf(P, r) = EpsilonRule
            \/ /\ r.pc = "run" /\ r.reds = << EpsilonRule >>
               /\ r.stack = << 0, accepting_state >>
               /\ r.asts = << RuleAction(EpsilonRule, Context, << >>) >>
               /\ ActionOf(P, r) = ShiftAction
            \/ /\ r.pc = "returned" /\ r.reds = << EpsilonRule >>
               /\ r.stack = << 0, accepting_state >>
               /\ r.result = RuleAction(EpsilonRule, Context, << >>)

C7_Witness ==
    \E p \in DOMAIN runs :
        /\ pstatus = "built" /\ NullableRoot /\ k >= 1
        /\ runs[p].read = << >> /\ runs[p].pc = "returned"

\* C9: a grammar with no rules fails with InvalidGrammarError before anything
\* is built; a grammar with rules fails only with a table conflict.
C9_EmptyGrammar ==
    pstatus # "new" =>
        /\ grammar = << >> =>
              /\ pstatus = "failed" /\ cerror = EmptyGrammarError
              /\ first = EmptyMap /\ states = << >>
        /\ (grammar # << >> /\ pstatus = "failed") => RaisedConflict
        /\ (grammar # << >> /\ pstatus = "built") => cerror = NoError

C9_Witness == pstatus = "failed" /\ grammar = << >> /\ cerror = EmptyGrammarError

\* C10: at the top of every iteration asts has one entry fewer than stack,
\* stack is not empty, has state 0 at its bottom and holds valid state indices.
C10_StackInvariant ==
    \A p \in DOMAIN runs :
        runs[p].pc = "run" =>
            /\ Len(runs[p].asts) = Len(runs[p].stack) - 1
            /\ Len(runs[p].stack) >= 1
            /\ runs[p].stack[1] = 0
            /\ \A i \in 1..Len(runs[p].stack) : runs[p].stack[i] \in 0..(Len(states) - 1)

C10_Witness ==
    \E p \in DOMAIN runs :
        /\ runs[p].pc = "run" /\ Len(runs[p].stack) >= 3
        /\ runs[p].reds # << >> /\ runs[p].shifted # << >>

\* Parser.parse run alone, to its end, on a whole sentence.
RECURSIVE RunAlone(_, _, _, _)
RunAlone(parser, r, sentence, fuel) ==
    IF r.pc # "run" \/ fuel = 0 THEN r
    ELSE LET pos == Len(r.read)
             nx == IF pos < Len(sentence) THEN SomeNext(sentence[pos + 1]) ELSE NoNext
             r2 == LoopStep(parser, r, nx)
         IN RunAlone(parser, [r2 EXCEPT !.hasNext = Len(r2.read) < Len(sentence)],
                     sentence, fuel - 1)

ParseAlone(parser, sentence, limit) ==
    LET n == Min(parser.k, Len(sentence))
    IN RunAlone(parser,
                Prime(IdleRun(limit), parser.k, SubSeq(sentence, 1, n), n < Len(sentence)),
                sentence, 4 * (Len(sentence) + 2))

Outcome(r) == << r.pc, r.result, r.error, r.stack, r.asts, r.shifted, r.reds >>

\* C8: no step of a call changes the parser, and each of two calls whose steps
\* interleave ends as it ends when run alone.
C8_ParserImmutable ==
    [][ /\ pstatus = "built" =>
              << states, accepting_state, k, grammar, matchers >>'
                  = << states, accepting_state, k, grammar, matchers >>
        /\ \A p \in DOMAIN runs' :
              Ended(runs'[p]) =>
                  Outcome(runs'[p])
                      = Outcome(ParseAlone(ParserOf(states', accepting_state', k', grammar'),
                                           runs'[p].read, runs'[p].limit)) ]_vars

C8_Witness ==
    /\ DOMAIN runs = {1, 2}
    /\ runs[1].pc = "returned" /\ Len(runs[1].shifted) >= 1
    /\ runs[2].pc = "run" /\ Len(runs[2].shifted) >= 1 /\ runs[2].reds # << >>

\* C11: at the top of every iteration the buffer holds the tokens pulled from
\* the iterator and not yet shifted, in input order; it holds k of them while
\* the iterator has more and never more than k; with k = 0 it is empty and
\* the tokens shifted are the tokens pulled, one for one.
C11_LookaheadWindow ==
    \A p \in DOMAIN runs :
        runs[p].pc = "run" =>
            /\ runs[p].read = runs[p].shifted \o runs[p].buf
            /\ Len(runs[p].buf) <= k
            /\ runs[p].hasNext => Len(runs[p].buf) = k
            /\ k = 0 => runs[p].buf = << >> /\ runs[p].shifted = runs[p].read

C11_Witness ==
    \E p \in DOMAIN runs :
        /\ k = 2 /\ runs[p].pc = "run"
        /\ Len(runs[p].shifted) >= 2 /\ Len(runs[p].buf) = 1 /\ ~runs[p].hasNext

\* The calls a reduction by rule a is to make, given the values on asts.
ExpectedCalls(r, a) ==
    LET n == Len(RuleAt(Aug, a).right)
        top == SubSeq(r.asts, Len(r.asts) - n + 1, Len(r.asts))
        value == RuleAction(a, Context, top)
    IN (IF r.pre THEN << Call("prereduce_visitor", -1, None, top, NoValue) >> ELSE << >>)
       \o << Call("action", a, Context, top, NoValue) >>
       \o (IF r.post THEN << Call("postreduce_visitor", a, None, << >>, value) >> ELSE << >>)

\* C12: a step that reduces by a rule r calls the pre-reduce hook (if given)
\* with the top |r.right| values of asts in stack order, then r.action once
\* with the context and the same values, then the post-reduce hook (if given)
\* with r and the value of the action, which is the value pushed; every other
\* step (shift, accept, error) calls none of them.
C12_HookOrdering ==
    [][ \A p \in DOMAIN runs :
          LET r == runs[p]
              r2 == runs'[p]
          IN (pstatus = "built" /\ r.pc = "run" /\ r2 # r) =>
                IF ActionOf(P, r) >= 1
                THEN /\ Len(r.asts) >= Len(RuleAt(Aug, ActionOf(P, r)).right)
                     /\ r2.calls = r.calls \o ExpectedCalls(r, ActionOf(P, r))
                     /\ r2.pc = "run" =>
                          r2.asts[Len(r2.asts)]
                              = RuleAction(ActionOf(P, r), Context,
                                    r2.calls[Len(r2.calls) - (IF r.post THEN 1 ELSE 0)].args)
                ELSE r2.calls = r.calls ]_vars

C12_Witness ==
    \E p \in DOMAIN runs :
        /\ runs[p].pre /\ runs[p].post /\ runs[p].pc = "returned"
        /\ Len(runs[p].calls) >= 6
        /\ \E c \in 1..Len(runs[p].calls) : Len(runs[p].calls[c].args) = 3

\* C13: a step that reduces by a rule r leaves the buffer, the tokens pulled
\* from the iterator, the iterator's state and the tokens shifted unchanged;
\* it pops |r.right| entries from stack and from asts and pushes the goto of
\* the uncovered state on r.left and the value of the action; it raises
\* nothing.
C13_ReductionFrame ==
    [][ \A p \in DOMAIN runs :
          LET r == runs[p]
              r2 == runs'[p]
              a == ActionOf(P, r)
              n == Len(RuleAt(Aug, a).right)
              base == SubSeq(r.stack, 1, Len(r.stack) - n)
          IN (pstatus = "built" /\ r.pc = "run" /\ r2 # r /\ a >= 1) =>
                /\ r2.buf = r.buf /\ r2.read = r.read /\ r2.hasNext = r.hasNext
                /\ r2.shifted = r.shifted
                /\ r2.pc = "run"
                /\ n < Len(r.stack)
                /\ r2.stack = Append(base, GetNextState(StateAt(P, base[Len(base)]),
                                                        RuleAt(Aug, a).left))
                /\ r2.asts = Append(SubSeq(r.asts, 1, Len(r.asts) - n),
                                    RuleAction(a, Context,
                                        SubSeq(r.asts, Len(r.asts) - n + 1, Len(r.asts)))) ]_vars

C13_Witness ==
    \E p \in DOMAIN runs :
        /\ k = 2 /\ runs[p].pc = "run" /\ Len(runs[p].buf) = 2
        /\ Len(runs[p].reds) >= 2 /\ Len(runs[p].shifted) >= 1
        /\ runs[p].asts[Len(runs[p].asts)].node
        /\ Len(runs[p].asts[Len(runs[p].asts)].kids) = 2

\* The state list as the worklist expansion leaves it.
Expanded == BuildStates(Aug, first, k)

\* The state ids reachable from state 0 through goto entries.
RECURSIVE ReachableFrom(_, _)
ReachableFrom(sts, seen) ==
    LET more == seen \cup UNION { { sts[i + 1].goto[X] : X \in DOMAIN sts[i + 1].goto } :
                                     i \in seen }
    IN IF more = seen THEN seen ELSE ReachableFrom(sts, more)

\* C14: after the worklist expansion no two states have equal item sets;
\* goto[X] of state i is defined exactly when Goto(states[i], X) is not empty,
\* and then leads to the state whose item set is Goto(states[i], X); every
\* state is reachable from state 0 through goto entries.  The parser's states
\* are these states, in this order.
C14_StateDedup ==
    (pstatus # "new" /\ NoCallYet /\ grammar # << >>) =>
        LET sts == Expanded IN
        /\ \A i \in 1..Len(sts), j \in 1..Len(sts) :
              sts[i].itemset = sts[j].itemset => i = j
        /\ \A i \in 1..Len(sts) :
              /\ sts[i].itemset # {}
              /\ DOMAIN sts[i].goto \subseteq Symbols(Aug)
              /\ \A X \in Symbols(Aug) :
                    LET target == Goto(Aug, first, k, sts[i].itemset, X)
                    IN /\ X \in DOMAIN sts[i].goto <=> target # {}
                       /\ X \in DOMAIN sts[i].goto =>
                             /\ sts[i].goto[X] \in 0..(Len(sts) - 1)
                             /\ sts[sts[i].goto[X] + 1].itemset = target
        /\ ReachableFrom(sts, {0}) = 0..(Len(sts) - 1)
        /\ Len(BuiltStates) = Len(sts)
        /\ \A i \in 1..Len(sts) : BuiltStates[i].itemset = sts[i].itemset

C14_Witness ==
    /\ pstatus = "built" /\ NoCallYet /\ k = 1
    /\ Len(states) >= 6
    /\ \E i \in 1..Len(states), j \in 1..Len(states) :
         \E X \in DOMAIN states[i].goto \cap DOMAIN states[j].goto :
            i # j /\ states[i].goto[X] = states[j].goto[X]

\* The item (S' -> R ., ()).
AcceptItem == Item(0, 1, << >>)

\* C15 (as claimed, for every grammar with rules, also one that uses '' as a
\* symbol): construction of a parser fails only with the table conflict; in a built parser exactly one state contains the item
\* (S' -> R ., ()), accepting_state is the index of that state, the state is
\* goto(state 0, R), and its action on the empty lookahead is None.
C15_AcceptingState ==
    (pstatus # "new" /\ NoCallYet /\ grammar # << >>) =>
        /\ cerror # AssertionError
        /\ pstatus = "built" =>
              /\ Cardinality({ i \in 1..Len(states) : AcceptItem \in states[i].itemset }) = 1
              /\ accepting_state \in 0..(Len(states) - 1)
              /\ AcceptItem \in StateAt(P, accepting_state).itemset
              /\ GetNextState(StateAt(P, 0), Root(grammar)) = accepting_state
              /\ StateAt(P, accepting_state).itemset
                    = Goto(Aug, first, k, StateAt(P, 0).itemset, Root(grammar))
              /\ GetAction(StateAt(P, accepting_state), << >>) = ShiftAction

\* C16: the item set _close_itemset returns contains the items it was given
\* and, for each of its items with a non-terminal B after the dot, the item
\* (B -> . gamma, l) for every rule of B and every l in FIRST_k of the rest
\* after B followed by the item's lookahead; closing it again adds nothing.
C16_ClosureIdempotence ==
    /\ Len(closed) >= 1 =>
          /\ citems \subseteq closed[1]
          /\ \A it \in closed[1] :
                LET right == RuleAt(Aug, it.rule).right
                    rest == SubSeq(right, it.index + 2, Len(right))
                IN (it.index < Len(right) /\ ~IsTerminal(Aug, right[it.index + 1])) =>
                      \A rule \in 0..(Len(Aug) - 1) :
                         RuleAt(Aug, rule).left = right[it.index + 1] =>
                            \A l \in FirstWord(first, rest \o it.lookahead, k) :
                               Item(rule, 0, l) \in closed[1]
    /\ Len(closed) = 2 => closed[2] = closed[1]

C16_Witness ==
    /\ Len(closed) = 2 /\ k = 2
    /\ Cardinality(closed[1]) >= Cardinality(citems) + 3
    /\ \E it \in closed[1] : it.lookahead # << >>

\* The non-terminals that derive a string of terminals.
RECURSIVE ProductiveFix(_, _)
ProductiveFix(aug, S) ==
    LET S2 == S \cup { aug[i].left : i \in { j \in 1..Len(aug) :
                          \A n \in 1..Len(aug[j].right) :
                             IsTerminal(aug, aug[j].right[n]) \/ aug[j].right[n] \in S } }
    IN IF S2 = S THEN S ELSE ProductiveFix(aug, S2)

Productive(aug) == ProductiveFix(aug, {})

\* With k = 0, every lookahead of an item and every key of an action table is
\* the empty tuple.
EmptyKeys ==
    (k = 0 /\ pstatus # "new") =>
        \A n \in 1..Len(BuiltStates) :
            /\ \A it \in BuiltStates[n].itemset : it.lookahead = << >>
            /\ \A la \in DOMAIN BuiltStates[n].action : la = << >>
            /\ \A e \in 1..Len(BuiltStates[n].action_match) :
                  BuiltStates[n].action_match[e][1] = << >>

AcceptAndShiftOnEmpty(st) ==
    /\ AcceptItem \in st.itemset
    /\ \E it \in st.itemset : TerminalAfterDot(it) /\ << >> \in Lookaheads(Aug, first, k, it)

\* The token a step on the None action takes: the head of the buffer, or with
\* an empty buffer the token the iterator gives.
TakenToken(r, r2) == IF r.buf # << >> THEN Head(r.buf) ELSE r2.read[Len(r2.read)]

NoTokenLeft(r) == r.buf = << >> /\ ~r.hasNext

\* The end of the input on the None action: return in the accepting state,
\* ParsingError in the others.
AtEnd(r, r2) ==
    /\ Top(r) = accepting_state =>
          r2.pc = "returned" /\ Len(r.asts) = 1 /\ r2.result = r.asts[1]
    /\ Top(r) # accepting_state =>
          r2.pc = "error" /\ r2.error = "Reached the end of file prematurely."

Shifted(r, r2) ==
    /\ r2.pc = "run"
    /\ r2.stack = Append(r.stack, GetNextState(StateAt(P, Top(r)),
                                               extract_first(TakenToken(r, r2))))
    /\ r2.asts = Append(r.asts, Leaf(TakenToken(r, r2)))
    /\ r2.shifted = Append(r.shifted, TakenToken(r, r2))

\* A state with the accept item and a shift item on one lookahead is built,
\* with the None action on that lookahead; a conflict is raised only for a
\* pair with a reduce.
AcceptShiftNoConflict ==
    (pstatus # "new" /\ NoCallYet /\ grammar # << >>) =>
        /\ RaisedConflict => \E n \in 1..Len(BuiltStates) : ConflictPair(BuiltStates[n])
        /\ pstatus = "built" =>
              \A n \in 1..Len(states) :
                 AcceptAndShiftOnEmpty(states[n]) =>
                    accepting_state = n - 1 /\ GetAction(states[n], << >>) = ShiftAction

\* C18 (as claimed): on the None action the driver, with no token left,
\* returns the one value in the accepting state and raises ParsingError
\* (premature end) in another state; with a token left it shifts the token,
\* also in the accepting state.  An accept item and a shift item on one
\* lookahead are no table conflict.
C18_AcceptFoldedAlwaysShifts ==
    /\ []AcceptShiftNoConflict
    /\ [][ \A p \in DOMAIN runs :
             LET r == runs[p]
                 r2 == runs'[p]
             IN (pstatus = "built" /\ r.pc = "run" /\ r2 # r /\ ActionOf(P, r) = ShiftAction) =>
                   IF NoTokenLeft(r) THEN AtEnd(r, r2) ELSE Shifted(r, r2) ]_vars

\* C18 (amended): ... with a token left it shifts the token, also in the
\* accepting state, when the state has a transition for the token, and raises
\* ParsingError (unexpected token) when it has none.
C18_AcceptFolded ==
    /\ []AcceptShiftNoConflict
    /\ [][ \A p \in DOMAIN runs :
             LET r == runs[p]
                 r2 == runs'[p]
             IN (pstatus = "built" /\ r.pc = "run" /\ r2 # r /\ ActionOf(P, r) = ShiftAction) =>
                   IF NoTokenLeft(r) THEN AtEnd(r, r2)
                   ELSE IF GetNextState(StateAt(P, Top(r)),
                                        extract_first(TakenToken(r, r2))) # Raise
                        THEN Shifted(r, r2)
                        ELSE /\ r2.pc = "error" /\ r2.error = "Unexpected input token"
                             /\ r2.stack = r.stack /\ r2.asts = r.asts ]_vars

C18_Witness ==
    \E p \in DOMAIN runs :
        /\ k = 0 /\ pstatus = "built"
        /\ runs[p].pc = "run" /\ Top(runs[p]) = accepting_state
        /\ Len(runs[p].shifted) >= 1 /\ runs[p].seenAccept
        /\ AcceptAndShiftOnEmpty(StateAt(P, accepting_state))
        /\ Len(runs[p].stack) = 2

\* C19: every call of parse on a built parser comes to its end, returning a
\* value or raising ParsingError; no sequence of reductions goes on for ever.
C19_Termination ==
    (pstatus = "built" /\ runs[1].pc = "run") ~> (runs[1].pc \in { "returned", "error" })

C19_Witness ==
    /\ pstatus = "built" /\ runs[1].pc = "error"
    /\ Len(runs[1].reds) + Len(runs[1].shifted) >= 5

\* The accepting exit of the loop: the null action, no token left to take and
\* the accepting state on top of the stack.
AtAcceptExit(p) ==
    /\ Running(p)
    /\ ActionOf(P, runs[p]) = ShiftAction
    /\ runs[p].buf = << >> /\ ~runs[p].hasNext
    /\ Top(runs[p]) = accepting_state

\* C20 (as claimed, for every grammar with rules, also one that uses '' as a
\* symbol): at the accepting exit the value stack holds one value and the state
\* stack is [0, accepting_state], so `assert len(asts) == 1' never fails; state
\* 0 is on the state stack at the bottom only.
C20_AcceptAssertion ==
    \A p \in DOMAIN runs :
        /\ runs[p].pc # "crash"
        /\ AtAcceptExit(p) =>
              /\ Len(runs[p].asts) = 1
              /\ runs[p].stack = << 0, accepting_state >>
        /\ \A i \in 2..Len(runs[p].stack) : runs[p].stack[i] # 0

====
